---------------------------- MODULE Spec2Model ----------------------------
(***************************************************************************)
(* Model of the token tracker's ingestion and aggregation pipeline:        *)
(*   tracker/pricing.py  get_pricing, calculate_cost                       *)
(*   tracker/db.py       _conn, upsert_turns_bulk, query_totals,           *)
(*                       query_sessions, query_projects, query_models,     *)
(*                       query_rolling_window                              *)
(*   tracker/parser.py   iter_turns, _get_cwd_from_jsonl, scan_projects,   *)
(*                       scan_all_turns, scan_session_turns                *)
(*   ingest.py           main                                              *)
(*                                                                         *)
(* Representation.                                                         *)
(*  - A table is a function whose DOMAIN is the set of primary keys that   *)
(*    have a row.                                                          *)
(*  - A timestamp is a natural number; ISO-8601 strings of one format are  *)
(*    ordered by SQLite's text MAX exactly as the instants they denote.    *)
(*    Where a timestamp is compared with a text of another format (the     *)
(*    cutoff of query_rolling_window), the number counts hours and both    *)
(*    texts are written out character by character.                        *)
(*  - cost_usd is kept exactly, in units of 10^-8 USD: the rates of        *)
(*    PRICING are USD per million tokens with two decimals, so             *)
(*    tokens * rate / 1_000_000 USD = tokens * (100 * rate) units.         *)
(*  - A model identifier is a string; Chars gives its characters, which    *)
(*    is what str.startswith compares.                                     *)
(***************************************************************************)
EXTENDS Integers, Sequences, FiniteSets, TLC

VARIABLES
    sessions,   \* table sessions: session_id -> [project_path, first_seen, last_seen]
    turns,      \* table turns: message_id -> row
    last,       \* the Turn the latest upsert_turns_bulk call processed, or NoTurn
    prev,       \* <<sessions, turns>> as they were before the latest call
    ncalls,     \* number of upsert_turns_bulk calls made
    \* concurrent ingest processes and a polling reader (SpecTxn)
    pc,         \* per process: "scan", "upsert", "done" or "failed"
    batch,      \* per process: the list of Turns main() hands to upsert_turns_bulk
    stmts,      \* per process: number of con.execute statements completed
    txn,        \* per process: <<sessions, turns>> as its open transaction sees them
    begun,      \* per process: the committed store when its first statement ran
    lock,       \* holder of the database write lock, or "free"
    seen,       \* what the reader's latest query saw, and who was writing then
                \* (with 1 when its latest statement was a sessions upsert)
    snaps,      \* the committed stores at batch boundaries
    waited,     \* processes that had statements to run while another one wrote
    \* iter_turns over one log file (SpecParse)
    lines,      \* the lines of the file
    pos,        \* number of lines the for loop has consumed
    best,       \* the dict best, as its values in key insertion order
    pstate,     \* "reading", "yielded" (generator exhausted) or "raised"
    yielded,    \* the Turns the generator yielded
    \* runs of ingest.py main over a log directory (SpecIngest)
    disk,       \* the log directory: path of each .jsonl file -> its lines
    runs,       \* number of runs of main() so far
    trace,      \* per run: its payload, the branch taken, the files it
                \* extracted and whether it returned ("ok") or raised
    handed,     \* the list of Turns the latest run handed to upsert_turns_bulk
    \* the rolling-window query against the clock (SpecWindow)
    now,        \* the current time, in whole hours since midnight of day 0 (UTC)
    window,     \* the latest query_rolling_window call: its hours and its result
    \* calls of the pricing functions (SpecPricing)
    ask,        \* the arguments: a model identifier and four token counts
    quote,      \* what get_pricing and calculate_cost returned for them
    \* scan_all_turns over a projects directory (SpecScan)
    tree,       \* whether the root directory exists, and its subdirectories
    scanned,    \* what list(scan_all_turns()) gave: raised, or the Turns
    \* tracker/config.py (SpecConfig)
    config,     \* the dict _load() returns: {} while the file is absent
    calls,      \* the calls made so far: operation, argument, result, and
                \* the config before and after
    \* a log file that grows between runs of main() (SpecGrow)
    whole       \* the lines the file holds once the session has ended

storeVars == <<sessions, turns, last, prev, ncalls>>
txnVars == <<pc, batch, stmts, txn, begun, lock, seen, snaps, waited>>
parseVars == <<lines, pos, best, pstate, yielded>>
ingestVars == <<disk, runs, trace, handed>>
windowVars == <<now, window>>
pricingVars == <<ask, quote>>
scanVars == <<tree, scanned>>
configVars == <<config, calls>>
growVars == <<whole>>
vars == <<storeVars, txnVars, parseVars, ingestVars, windowVars, pricingVars, scanVars, configVars,
          growVars>>

----------------------------------------------------------------------------
(* Bounds of the model *)

MaxCalls == 2
MaxBatch == 2
MaxLines == 3
MaxRuns == 2
MaxOps == 4

----------------------------------------------------------------------------
(* tracker/pricing.py *)

Chars ==
    "claude-sonnet-4-6" :> <<"c","l","a","u","d","e","-","s","o","n","n","e","t","-","4","-","6">> @@
    "claude-sonnet-4-5" :> <<"c","l","a","u","d","e","-","s","o","n","n","e","t","-","4","-","5">> @@
    "claude-opus-4-6" :> <<"c","l","a","u","d","e","-","o","p","u","s","-","4","-","6">> @@
    "claude-opus-4-5" :> <<"c","l","a","u","d","e","-","o","p","u","s","-","4","-","5">> @@
    "claude-haiku-4-5" :> <<"c","l","a","u","d","e","-","h","a","i","k","u","-","4","-","5">> @@
    "claude-haiku-4-5-20251001" :> <<"c","l","a","u","d","e","-","h","a","i","k","u","-","4","-","5","-","2","0","2","5","1","0","0","1">> @@
    "claude-3-5-sonnet-20241022" :> <<"c","l","a","u","d","e","-","3","-","5","-","s","o","n","n","e","t","-","2","0","2","4","1","0","2","2">> @@
    "claude-3-5-haiku-20241022" :> <<"c","l","a","u","d","e","-","3","-","5","-","h","a","i","k","u","-","2","0","2","4","1","0","2","2">> @@
    "claude-3-opus-20240229" :> <<"c","l","a","u","d","e","-","3","-","o","p","u","s","-","2","0","2","4","0","2","2","9">> @@
    "unknown" :> <<"u","n","k","n","o","w","n">> @@
    "claude-sonnet-4-5-20250929" :> <<"c","l","a","u","d","e","-","s","o","n","n","e","t","-","4","-","5","-","2","0","2","5","0","9","2","9">> @@
    "claude" :> <<"c","l","a","u","d","e">> @@
    "claude-opus-4-20250514" :> <<"c","l","a","u","d","e","-","o","p","u","s","-","4","-","2","0","2","5","0","5","1","4">> @@
    "claude-haiku-4-5-2025" :> <<"c","l","a","u","d","e","-","h","a","i","k","u","-","4","-","5","-","2","0","2","5">> @@
    "" :> <<>>

\* str.startswith: p is a prefix of s
startswith(s, p) ==
    /\ Len(Chars[p]) <= Len(Chars[s])
    /\ \A i \in 1..Len(Chars[p]) : Chars[s][i] = Chars[p][i]

\* The PRICING dict in its insertion order; rates are 100 * (USD per million tokens).
PRICING == <<
    [key |-> "claude-sonnet-4-6",          input |-> 300,  output |-> 1500, cache_write |-> 375,  cache_read |-> 30],
    [key |-> "claude-sonnet-4-5",          input |-> 300,  output |-> 1500, cache_write |-> 375,  cache_read |-> 30],
    [key |-> "claude-opus-4-6",            input |-> 1500, output |-> 7500, cache_write |-> 1875, cache_read |-> 150],
    [key |-> "claude-opus-4-5",            input |-> 1500, output |-> 7500, cache_write |-> 1875, cache_read |-> 150],
    [key |-> "claude-haiku-4-5",           input |-> 80,   output |-> 400,  cache_write |-> 100,  cache_read |-> 8],
    [key |-> "claude-haiku-4-5-20251001",  input |-> 80,   output |-> 400,  cache_write |-> 100,  cache_read |-> 8],
    [key |-> "claude-3-5-sonnet-20241022", input |-> 300,  output |-> 1500, cache_write |-> 375,  cache_read |-> 30],
    [key |-> "claude-3-5-haiku-20241022",  input |-> 80,   output |-> 400,  cache_write |-> 100,  cache_read |-> 8],
    [key |-> "claude-3-opus-20240229",     input |-> 1500, output |-> 7500, cache_write |-> 1875, cache_read |-> 150] >>

DEFAULT_PRICING ==
    [key |-> "", input |-> 300, output |-> 1500, cache_write |-> 375, cache_read |-> 30]

\* Faulty variant of the lookup: the prefix loop keeps the last match
get_pricing_last_match(model) ==
    IF \E i \in 1..Len(PRICING) : PRICING[i].key = model
    THEN PRICING[CHOOSE i \in 1..Len(PRICING) : PRICING[i].key = model]
    ELSE LET hits == {i \in 1..Len(PRICING) :
                        startswith(model, PRICING[i].key) \/ startswith(PRICING[i].key, model)}
         IN  IF hits # {}
             THEN PRICING[CHOOSE i \in hits : \A j \in hits : i >= j]
             ELSE DEFAULT_PRICING

get_pricing(model) ==
    IF \E i \in 1..Len(PRICING) : PRICING[i].key = model
    THEN PRICING[CHOOSE i \in 1..Len(PRICING) : PRICING[i].key = model]
    ELSE LET hits == {i \in 1..Len(PRICING) :
                        startswith(model, PRICING[i].key) \/ startswith(PRICING[i].key, model)}
         IN  IF hits # {}
             THEN PRICING[CHOOSE i \in hits : \A j \in hits : i <= j]
             ELSE DEFAULT_PRICING

\* Faulty variant: cache-creation tokens are charged at the cache_read rate
calculate_cost_cache_rates_mixed(model, input_tokens, output_tokens, cache_creation_tokens, cache_read_tokens) ==
    LET p == get_pricing(model)
    IN  input_tokens * p.input
        + output_tokens * p.output
        + cache_creation_tokens * p.cache_read
        + cache_read_tokens * p.cache_read

calculate_cost(model, input_tokens, output_tokens, cache_creation_tokens, cache_read_tokens) ==
    LET p == get_pricing(model)
    IN  input_tokens * p.input
        + output_tokens * p.output
        + cache_creation_tokens * p.cache_write
        + cache_read_tokens * p.cache_read

----------------------------------------------------------------------------
(* Turn values handed to the store *)

MessageIds == {"m1", "m2"}
SessionIds == {"s1", "s2"}
ProjectPaths == {"p1", "p2"}
Models == {"claude-opus-4-5", "unknown"}
\* Two instants, the earlier and the later
Timestamps == {1, 2}

\* The token counts of a Turn: an output-only record, a record with input and
\* cache-creation tokens, and a cache-read-only record. None is all zero (the
\* extractor never constructs such a Turn) and no two are ordered field by field.
TokenVectors ==
    {[input_tokens |-> 0, output_tokens |-> 1, cache_creation_tokens |-> 0, cache_read_tokens |-> 0],
     [input_tokens |-> 1, output_tokens |-> 0, cache_creation_tokens |-> 1, cache_read_tokens |-> 0],
     [input_tokens |-> 0, output_tokens |-> 0, cache_creation_tokens |-> 0, cache_read_tokens |-> 1]}

\* The Turn values handed to upsert_turns_bulk (outer_uuid, which the store
\* never reads, is left out)
Turns ==
    {[message_id |-> m, session_id |-> s, project_path |-> pp, timestamp |-> ts, model |-> mo,
      input_tokens |-> v.input_tokens, output_tokens |-> v.output_tokens,
      cache_creation_tokens |-> v.cache_creation_tokens,
      cache_read_tokens |-> v.cache_read_tokens] :
        m \in MessageIds, s \in SessionIds, pp \in ProjectPaths, ts \in Timestamps,
        mo \in Models, v \in TokenVectors}

NoTurn == [message_id |-> "none"]

\* Python's None: an absent payload field, an SQL NULL in a fetched row
None == "None"

Max(a, b) == IF a >= b THEN a ELSE b

----------------------------------------------------------------------------
(* tracker/db.py: upsert_turns_bulk *)

\* Faulty variants of the sessions upsert.
\* Variant: last_seen = excluded.last_seen
upsert_session_overwrite(ss, turn) ==
    IF turn.session_id \in DOMAIN ss
    THEN [ss EXCEPT ![turn.session_id].last_seen = turn.timestamp]
    ELSE ss @@ (turn.session_id :>
                  [project_path |-> turn.project_path,
                   first_seen |-> turn.timestamp,
                   last_seen |-> turn.timestamp])

\* Variant: first_seen = MIN(first_seen, excluded.first_seen) added
upsert_session_min_first(ss, turn) ==
    IF turn.session_id \in DOMAIN ss
    THEN [ss EXCEPT ![turn.session_id] =
            [@ EXCEPT !.first_seen = IF turn.timestamp < @ THEN turn.timestamp ELSE @,
                      !.last_seen = Max(@, turn.timestamp)]]
    ELSE ss @@ (turn.session_id :>
                  [project_path |-> turn.project_path,
                   first_seen |-> turn.timestamp,
                   last_seen |-> turn.timestamp])

\* INSERT INTO sessions ... ON CONFLICT(session_id) DO UPDATE SET last_seen = MAX(...)
upsert_session(ss, turn) ==
    IF turn.session_id \in DOMAIN ss
    THEN [ss EXCEPT ![turn.session_id].last_seen = Max(@, turn.timestamp)]
    ELSE ss @@ (turn.session_id :>
                  [project_path |-> turn.project_path,
                   first_seen |-> turn.timestamp,
                   last_seen |-> turn.timestamp])

\* The row INSERT INTO turns ... VALUES (...) writes when message_id is new
InsertedRow(turn, cost) ==
    [session_id |-> turn.session_id,
     timestamp |-> turn.timestamp,
     model |-> turn.model,
     input_tokens |-> turn.input_tokens,
     output_tokens |-> turn.output_tokens,
     cache_creation_tokens |-> turn.cache_creation_tokens,
     cache_read_tokens |-> turn.cache_read_tokens,
     cost_usd |-> cost]

\* Faulty variants of the turns upsert, each with one slip in its ON CONFLICT
\* clause.
\* Variant: output_tokens = output_tokens + excluded.output_tokens
upsert_turn_row_accumulate(ts, turn, cost) ==
    IF turn.message_id \in DOMAIN ts
    THEN [ts EXCEPT ![turn.message_id] =
            [@ EXCEPT !.output_tokens = @ + turn.output_tokens,
                      !.cache_creation_tokens = Max(@, turn.cache_creation_tokens),
                      !.cache_read_tokens = Max(@, turn.cache_read_tokens),
                      !.cost_usd = Max(@, cost)]]
    ELSE ts @@ (turn.message_id :> InsertedRow(turn, cost))

\* Variant: output_tokens = excluded.output_tokens
upsert_turn_row_overwrite(ts, turn, cost) ==
    IF turn.message_id \in DOMAIN ts
    THEN [ts EXCEPT ![turn.message_id] =
            [@ EXCEPT !.output_tokens = turn.output_tokens,
                      !.cache_creation_tokens = Max(@, turn.cache_creation_tokens),
                      !.cache_read_tokens = Max(@, turn.cache_read_tokens),
                      !.cost_usd = Max(@, cost)]]
    ELSE ts @@ (turn.message_id :> InsertedRow(turn, cost))

\* Variant: input_tokens = MAX(input_tokens, excluded.input_tokens) added
upsert_turn_row_input_merged(ts, turn, cost) ==
    IF turn.message_id \in DOMAIN ts
    THEN [ts EXCEPT ![turn.message_id] =
            [@ EXCEPT !.input_tokens = Max(@, turn.input_tokens),
                      !.output_tokens = Max(@, turn.output_tokens),
                      !.cache_creation_tokens = Max(@, turn.cache_creation_tokens),
                      !.cache_read_tokens = Max(@, turn.cache_read_tokens),
                      !.cost_usd = Max(@, cost)]]
    ELSE ts @@ (turn.message_id :> InsertedRow(turn, cost))

\* Faulty variant: the conflict update also takes the incoming session_id,
\* timestamp, model and input_tokens
upsert_turn_row_identity_replaced(ts, turn, cost) ==
    IF turn.message_id \in DOMAIN ts
    THEN [ts EXCEPT ![turn.message_id] =
            [@ EXCEPT !.session_id = turn.session_id,
                      !.timestamp = turn.timestamp,
                      !.model = turn.model,
                      !.input_tokens = turn.input_tokens,
                      !.output_tokens = Max(@, turn.output_tokens),
                      !.cache_creation_tokens = Max(@, turn.cache_creation_tokens),
                      !.cache_read_tokens = Max(@, turn.cache_read_tokens),
                      !.cost_usd = Max(@, cost)]]
    ELSE ts @@ (turn.message_id :> InsertedRow(turn, cost))

\* INSERT INTO turns ... ON CONFLICT(message_id) DO UPDATE SET four MAX merges
upsert_turn_row(ts, turn, cost) ==
    IF turn.message_id \in DOMAIN ts
    THEN [ts EXCEPT ![turn.message_id] =
            [@ EXCEPT !.output_tokens = Max(@, turn.output_tokens),
                      !.cache_creation_tokens = Max(@, turn.cache_creation_tokens),
                      !.cache_read_tokens = Max(@, turn.cache_read_tokens),
                      !.cost_usd = Max(@, cost)]]
    ELSE ts @@ (turn.message_id :> InsertedRow(turn, cost))

\* One iteration of the for loop of upsert_turns_bulk on the store st = <<sessions, turns>>
upsert_one(st, turn) ==
    LET cost == calculate_cost(turn.model, turn.input_tokens, turn.output_tokens,
                               turn.cache_creation_tokens, turn.cache_read_tokens)
        after_sessions == <<upsert_session(st[1], turn), st[2]>>
    IN  <<after_sessions[1], upsert_turn_row(after_sessions[2], turn, cost)>>

\* The whole loop over the list of Turns
RECURSIVE upsert_turns_bulk(_, _)
upsert_turns_bulk(st, turn_list) ==
    IF turn_list = <<>> THEN st
    ELSE upsert_turns_bulk(upsert_one(st, Head(turn_list)), Tail(turn_list))

----------------------------------------------------------------------------
(* tracker/db.py: query helpers. A result with several rows is the set of   *)
(* its rows (their ORDER BY is left out); the LIMIT of query_sessions is    *)
(* above every number of sessions of the model.                             *)

RECURSIVE Total(_, _, _)
Total(ts, keys, column) ==
    IF keys = {} THEN 0
    ELSE LET m == CHOOSE m \in keys : TRUE
         IN  ts[m][column] + Total(ts, keys \ {m}, column)

\* SUM(column) over the rows keys of turns: NULL when there is no row
SUM(ts, keys, column) == IF keys = {} THEN None ELSE Total(ts, keys, column)

\* The characters of model identifiers and timestamps in their byte order,
\* which is the order SQLite's BINARY collation compares TEXT by
Alphabet ==
    <<" ", "-", "0", "1", "2", "3", "4", "5", "6", "7", "8", "9", "T",
      "a", "b", "c", "d", "e", "f", "g", "h", "i", "j", "k", "l", "m",
      "n", "o", "p", "q", "r", "s", "t", "u", "v", "w", "x", "y", "z">>

Ord(c) == CHOOSE i \in 1..Len(Alphabet) : Alphabet[i] = c

\* x <= y for the character sequences of two TEXT values: at the first
\* position where they differ x has the smaller character, or x is a prefix
\* of y
SeqLeq(x, y) ==
    LET differ == {i \in 1..Len(x) : i > Len(y) \/ x[i] # y[i]}
    IN  IF differ = {} THEN TRUE
        ELSE LET i == CHOOSE i \in differ : \A k \in differ : i <= k
             IN  i <= Len(y) /\ Ord(x[i]) < Ord(y[i])

TextLeq(a, b) == SeqLeq(Chars[a], Chars[b])

\* MAX(t.model) over a non-empty set of TEXT values
MaxText(S) == CHOOSE a \in S : \A b \in S : TextLeq(b, a)

\* query_totals
query_totals(ts) ==
    [sessions |-> Cardinality({ts[m].session_id : m \in DOMAIN ts}),
     turns |-> Cardinality(DOMAIN ts),
     input_tokens |-> SUM(ts, DOMAIN ts, "input_tokens"),
     output_tokens |-> SUM(ts, DOMAIN ts, "output_tokens"),
     cache_creation_tokens |-> SUM(ts, DOMAIN ts, "cache_creation_tokens"),
     cache_read_tokens |-> SUM(ts, DOMAIN ts, "cache_read_tokens"),
     cost_usd |-> SUM(ts, DOMAIN ts, "cost_usd")]

\* FROM sessions s JOIN turns t ON t.session_id = s.session_id: the turn rows
\* joined to session s
TurnsOf(ts, s) == {m \in DOMAIN ts : ts[m].session_id = s}

\* query_sessions
query_sessions(ss, ts) ==
    {[session_id |-> s,
      project_path |-> ss[s].project_path,
      first_seen |-> ss[s].first_seen,
      last_seen |-> ss[s].last_seen,
      turns |-> Cardinality(TurnsOf(ts, s)),
      input_tokens |-> SUM(ts, TurnsOf(ts, s), "input_tokens"),
      output_tokens |-> SUM(ts, TurnsOf(ts, s), "output_tokens"),
      cache_creation_tokens |-> SUM(ts, TurnsOf(ts, s), "cache_creation_tokens"),
      cache_read_tokens |-> SUM(ts, TurnsOf(ts, s), "cache_read_tokens"),
      cost_usd |-> SUM(ts, TurnsOf(ts, s), "cost_usd"),
      model |-> MaxText({ts[m].model : m \in TurnsOf(ts, s)})] :
        s \in {x \in DOMAIN ss : TurnsOf(ts, x) # {}}}

\* query_projects
query_projects(ss, ts) ==
    LET joined == {s \in DOMAIN ss : TurnsOf(ts, s) # {}}
        rows(pp) == UNION {TurnsOf(ts, s) : s \in {x \in joined : ss[x].project_path = pp}}
    IN  {[project_path |-> pp,
          sessions |-> Cardinality({s \in joined : ss[s].project_path = pp}),
          turns |-> Cardinality(rows(pp)),
          input_tokens |-> SUM(ts, rows(pp), "input_tokens"),
          output_tokens |-> SUM(ts, rows(pp), "output_tokens"),
          cache_creation_tokens |-> SUM(ts, rows(pp), "cache_creation_tokens"),
          cache_read_tokens |-> SUM(ts, rows(pp), "cache_read_tokens"),
          cost_usd |-> SUM(ts, rows(pp), "cost_usd")] :
            pp \in {ss[s].project_path : s \in joined}}

\* query_models
query_models(ts) ==
    LET rows(mo) == {m \in DOMAIN ts : ts[m].model = mo}
    IN  {[model |-> mo,
          turns |-> Cardinality(rows(mo)),
          input_tokens |-> SUM(ts, rows(mo), "input_tokens"),
          output_tokens |-> SUM(ts, rows(mo), "output_tokens"),
          cache_creation_tokens |-> SUM(ts, rows(mo), "cache_creation_tokens"),
          cache_read_tokens |-> SUM(ts, rows(mo), "cache_read_tokens"),
          cost_usd |-> SUM(ts, rows(mo), "cost_usd")] :
            mo \in {ts[m].model : m \in DOMAIN ts}}

\* The default of the hours parameter of query_rolling_window
WindowHours == 5

Digits == <<"0", "1", "2", "3", "4", "5", "6", "7", "8", "9">>

TwoDigits(n) == <<Digits[(n \div 10) + 1], Digits[(n % 10) + 1]>>

\* The TEXT stored for the instant n (hour n % 24 of day n \div 24): the
\* timestamp of the log record as iter_turns copies it, ISO-8601 with "T"
\* between date and time. Of "YYYY-MM-DDTHH:MM:SS.mmmZ" the day, the
\* separator and the hour are kept; the rest is the same in all texts.
isoformat(n) == TwoDigits(n \div 24) \o <<"T">> \o TwoDigits(n % 24)

\* datetime('now', '-h hours') at the instant n + h: SQLite formats it as
\* "YYYY-MM-DD HH:MM:SS", with a space between date and time
sqlite_datetime(n) == TwoDigits(n \div 24) \o <<" ">> \o TwoDigits(n % 24)

\* The row the SELECT of query_rolling_window returns over the rows keys
window_row(ts, keys) ==
    [sessions |-> Cardinality({ts[m].session_id : m \in keys}),
     turns |-> Cardinality(keys),
     input_tokens |-> SUM(ts, keys, "input_tokens"),
     output_tokens |-> SUM(ts, keys, "output_tokens"),
     cache_creation_tokens |-> SUM(ts, keys, "cache_creation_tokens"),
     cache_read_tokens |-> SUM(ts, keys, "cache_read_tokens"),
     cost_usd |-> SUM(ts, keys, "cost_usd"),
     oldest_turn |-> IF keys = {} THEN None
                     ELSE CHOOSE x \in {ts[m].timestamp : m \in keys} :
                              \A m \in keys : x <= ts[m].timestamp]

\* query_rolling_window(hours) called at the instant clock:
\* WHERE timestamp >= datetime('now', '-<hours> hours') compares TEXT
query_rolling_window(ts, clock, hours) ==
    window_row(ts, {m \in DOMAIN ts :
                      SeqLeq(sqlite_datetime(clock - hours), isoformat(ts[m].timestamp))})

----------------------------------------------------------------------------
(* The store under successive upsert_turns_bulk calls *)

EmptyTable == <<>>
EmptyStore == <<EmptyTable, EmptyTable>>

Procs == {"p1", "p2"}

\* No ingest process has started and no query was made.
TxnInit ==
    /\ pc = [p \in Procs |-> "scan"]
    /\ batch = [p \in Procs |-> <<>>]
    /\ stmts = [p \in Procs |-> 0]
    /\ txn = [p \in Procs |-> EmptyStore]
    /\ begun = [p \in Procs |-> EmptyStore]
    /\ lock = "free"
    /\ seen = [result |-> EmptyStore, writers |-> {}]
    /\ snaps = {EmptyStore}
    /\ waited = {}

StoreInit ==
    /\ sessions = EmptyTable
    /\ turns = EmptyTable
    /\ last = NoTurn
    /\ prev = EmptyStore
    /\ ncalls = 0

\* iter_turns has not been called
ParseInit ==
    /\ lines = <<>>
    /\ pos = 0
    /\ best = <<>>
    /\ pstate = "reading"
    /\ yielded = <<>>

\* main() has not run; the log directory is empty
IngestInit ==
    /\ disk = <<>>
    /\ runs = 0
    /\ trace = <<>>
    /\ handed = <<>>

\* No rolling-window query was made
NoQuery == [hours |-> 0]

WindowInit ==
    /\ now = 0
    /\ window = NoQuery

\* No pricing call was made
NoAsk == [model |-> None]
NoQuote == [model |-> None]

PricingInit ==
    /\ ask = NoAsk
    /\ quote = NoQuote

\* No scan was made; the root directory exists and is empty
NotScanned == [raised |-> FALSE]

ScanInit ==
    /\ tree = [root |-> TRUE, subdirs |-> {}]
    /\ scanned = NotScanned

\* The configuration file is absent and no call was made
ConfigInit ==
    /\ config = <<>>
    /\ calls = <<>>

\* No growing file is followed
GrowInit == whole = <<>>

Init ==
    /\ StoreInit /\ TxnInit /\ ParseInit /\ IngestInit /\ WindowInit /\ PricingInit
    /\ ScanInit /\ ConfigInit /\ GrowInit

\* A committed call upsert_turns_bulk([turn])
Upsert(turn) ==
    /\ ncalls < MaxCalls
    /\ LET st == upsert_turns_bulk(<<sessions, turns>>, <<turn>>)
       IN  /\ sessions' = st[1]
           /\ turns' = st[2]
    /\ last' = turn
    /\ prev' = <<sessions, turns>>
    /\ ncalls' = ncalls + 1
    /\ UNCHANGED <<txnVars, parseVars, ingestVars, windowVars, pricingVars, scanVars, configVars, growVars>>

Next == \E turn \in Turns : Upsert(turn)

Spec == Init /\ [][Next]_vars

----------------------------------------------------------------------------
(* Concurrent ingest processes and a polling reader: tracker/db.py _conn,   *)
(* upsert_turns_bulk statement by statement; ingest.py main                 *)

Store == <<sessions, turns>>

TurnCost(turn) ==
    calculate_cost(turn.model, turn.input_tokens, turn.output_tokens,
                   turn.cache_creation_tokens, turn.cache_read_tokens)

\* The Turns the concurrent ingests draw their lists from: message m1 of
\* session s1 as an early output-only record and as a late record with input
\* tokens, and message m2 of the same session as an early record.
TxnTurns ==
    {t \in Turns :
        /\ t.session_id = "s1" /\ t.project_path = "p1" /\ t.model = "unknown"
        /\ \/ t.timestamp = 1 /\ t.output_tokens = 1
           \/ t.message_id = "m1" /\ t.timestamp = 2 /\ t.input_tokens = 1}

Batches == UNION {[1..n -> TxnTurns] : n \in 0..MaxBatch}

\* Faulty variant: a connection in autocommit mode (isolation_level=None),
\* where every statement is committed on its own
autocommit_connection == FALSE

\* sqlite3.connect(DB_PATH) leaves isolation_level at its default, so the first
\* INSERT opens a transaction that lasts until commit() or close().
implicit_transaction == TRUE

\* Faulty variant: _conn with con.commit() moved into the finally block
conn_exit_commit_in_finally(committed, pending, ok) == pending

\* Leaving the with-block of _conn: commit() runs only when the body did not
\* raise; close() without commit discards the open transaction.
conn_exit(committed, pending, ok) == IF ok THEN pending ELSE committed

\* main(): the scan produced the list of Turns
Scan(p) ==
    /\ pc[p] = "scan"
    /\ \E b \in Batches : batch' = [batch EXCEPT ![p] = b]
    /\ pc' = [pc EXCEPT ![p] = "upsert"]
    /\ UNCHANGED <<storeVars, stmts, txn, begun, lock, seen, snaps, waited>>
    /\ UNCHANGED <<parseVars, ingestVars, windowVars, pricingVars, scanVars, configVars, growVars>>

\* One con.execute of the loop: the sessions upsert of a Turn, then its turns
\* upsert. A writer waits while another process holds the write lock.
Statement(p) ==
    /\ pc[p] = "upsert"
    /\ stmts[p] < 2 * Len(batch[p])
    /\ lock \in {"free", p}
    /\ LET turn == batch[p][(stmts[p] \div 2) + 1]
           cur == IF lock = p THEN txn[p] ELSE Store
           nxt == IF stmts[p] % 2 = 0
                  THEN <<upsert_session(cur[1], turn), cur[2]>>
                  ELSE <<cur[1], upsert_turn_row(cur[2], turn, TurnCost(turn))>>
       IN  /\ txn' = [txn EXCEPT ![p] = nxt]
           /\ IF implicit_transaction
              THEN lock' = p /\ UNCHANGED <<sessions, turns>>
              ELSE lock' = "free" /\ sessions' = nxt[1] /\ turns' = nxt[2]
    /\ begun' = IF stmts[p] = 0 THEN [begun EXCEPT ![p] = Store] ELSE begun
    /\ stmts' = [stmts EXCEPT ![p] = @ + 1]
    /\ waited' = waited \cup {q \in Procs \ {p} :
                                pc[q] = "upsert" /\ stmts[q] < 2 * Len(batch[q])}
    /\ UNCHANGED <<last, prev, ncalls, pc, batch, seen, snaps>>
    /\ UNCHANGED <<parseVars, ingestVars, windowVars, pricingVars, scanVars, configVars, growVars>>

\* The loop is over: the with-block exits normally and upsert_turns_bulk returns
Commit(p) ==
    /\ pc[p] = "upsert"
    /\ stmts[p] = 2 * Len(batch[p])
    /\ LET st == IF lock = p THEN conn_exit(Store, txn[p], TRUE) ELSE Store
       IN  sessions' = st[1] /\ turns' = st[2]
    /\ lock' = IF lock = p THEN "free" ELSE lock
    /\ pc' = [pc EXCEPT ![p] = "done"]
    /\ snaps' = IF batch[p] = <<>> THEN snaps
                ELSE snaps \cup {upsert_turns_bulk(begun[p], batch[p])}
    /\ UNCHANGED <<last, prev, ncalls, batch, stmts, txn, begun, seen, waited>>
    /\ UNCHANGED <<parseVars, ingestVars, windowVars, pricingVars, scanVars, configVars, growVars>>

\* The next statement (or calculate_cost before it) raises: the exception
\* leaves the with-block and upsert_turns_bulk
Fail(p) ==
    /\ pc[p] = "upsert"
    /\ stmts[p] < 2 * Len(batch[p])
    /\ LET st == IF lock = p THEN conn_exit(Store, txn[p], FALSE) ELSE Store
       IN  sessions' = st[1] /\ turns' = st[2]
    /\ lock' = IF lock = p THEN "free" ELSE lock
    /\ pc' = [pc EXCEPT ![p] = "failed"]
    /\ UNCHANGED <<last, prev, ncalls, batch, stmts, txn, begun, seen, snaps, waited>>
    /\ UNCHANGED <<parseVars, ingestVars, windowVars, pricingVars, scanVars, configVars, growVars>>

\* A query of the dashboard process: it reads the committed tables
Query ==
    /\ seen' = [result |-> Store,
                writers |-> {<<p, stmts[p] % 2>> : p \in {q \in Procs : pc[q] = "upsert" /\ stmts[q] > 0}}]
    /\ UNCHANGED <<storeVars, pc, batch, stmts, txn, begun, lock, snaps, waited>>
    /\ UNCHANGED <<parseVars, ingestVars, windowVars, pricingVars, scanVars, configVars, growVars>>

NextTxn ==
    \/ \E p \in Procs : Scan(p)
    \/ \E p \in Procs : Statement(p)
    \/ \E p \in Procs : Commit(p)
    \/ \E p \in Procs : Fail(p)
    \/ Query

SpecTxn == Init /\ [][NextTxn]_vars

----------------------------------------------------------------------------
(* tracker/parser.py: iter_turns over the lines of one log file *)

\* The fields iter_turns reads from a line. kind is what json.loads makes of
\* the stripped line: "blank" (nothing left after strip), "malformed"
\* (JSONDecodeError), "nonobject" (valid JSON that is no object: a number, a
\* string, a list, null) or "object". id = "" stands for a message without id.
\* cwd = "" stands for a record without cwd.
LineShape ==
    [kind |-> "object", type |-> "assistant", usage |-> "counts",
     id |-> "", uuid |-> "u1", sessionId |-> "s1", timestamp |-> 1, model |-> "unknown",
     cwd |-> "",
     input_tokens |-> 0, output_tokens |-> 0,
     cache_creation_input_tokens |-> 0, cache_read_input_tokens |-> 0]

\* (input_tokens, output_tokens) of the assistant records with a usage block:
\* all counts zero, output zero with input, and two different outputs
UsageCounts == {<<0, 0>>, <<1, 0>>, <<0, 1>>, <<0, 2>>}

AssistantUsageLines ==
    {[LineShape EXCEPT !.id = i, !.uuid = u, !.input_tokens = c[1], !.output_tokens = c[2]] :
        i \in {"m1", ""}, u \in {"u1", "u2"}, c \in UsageCounts}

LogLines ==
    {[LineShape EXCEPT !.kind = k] : k \in {"blank", "malformed", "nonobject"}}
      \cup {[LineShape EXCEPT !.type = "user"]}
      \cup {[LineShape EXCEPT !.usage = u] : u \in {"absent", "empty"}}
      \cup AssistantUsageLines

Files == UNION {[1..n -> LogLines] : n \in 0..MaxLines}

\* The project_path argument of iter_turns
ParseProjectPath == "p1"

\* Turn(...) as built from the record of a line
TurnOfLine(line, project_path) ==
    [message_id |-> IF line.id # "" THEN line.id ELSE line.uuid,
     outer_uuid |-> line.uuid,
     session_id |-> line.sessionId,
     project_path |-> project_path,
     timestamp |-> line.timestamp,
     model |-> line.model,
     input_tokens |-> line.input_tokens,
     output_tokens |-> line.output_tokens,
     cache_creation_tokens |-> line.cache_creation_input_tokens,
     cache_read_tokens |-> line.cache_read_input_tokens]

\* Faulty variant of the loop body: the "if total == 0: continue" is missing
parse_line_no_zero_filter(b, line, project_path) ==
    IF line.kind \in {"blank", "malformed"} THEN [raised |-> FALSE, best |-> b]
    ELSE IF line.kind = "nonobject" THEN [raised |-> TRUE, best |-> b]
    ELSE IF line.type # "assistant" THEN [raised |-> FALSE, best |-> b]
    ELSE IF line.usage # "counts" THEN [raised |-> FALSE, best |-> b]
    ELSE LET turn == TurnOfLine(line, project_path)
             at == {i \in 1..Len(b) : b[i].message_id = turn.message_id}
         IN  IF at = {}
             THEN [raised |-> FALSE, best |-> Append(b, turn)]
             ELSE LET i == CHOOSE i \in at : TRUE
                  IN  IF turn.output_tokens > b[i].output_tokens
                      THEN [raised |-> FALSE, best |-> [b EXCEPT ![i] = turn]]
                      ELSE [raised |-> FALSE, best |-> b]

\* Faulty variant of the loop body: a record whose output count equals the
\* retained one's replaces it
parse_line_ties_replace(b, line, project_path) ==
    IF line.kind \in {"blank", "malformed"} THEN [raised |-> FALSE, best |-> b]
    ELSE IF line.kind = "nonobject" THEN [raised |-> TRUE, best |-> b]
    ELSE IF line.type # "assistant" THEN [raised |-> FALSE, best |-> b]
    ELSE IF line.usage # "counts" THEN [raised |-> FALSE, best |-> b]
    ELSE IF line.input_tokens + line.output_tokens
              + line.cache_creation_input_tokens + line.cache_read_input_tokens = 0
         THEN [raised |-> FALSE, best |-> b]
    ELSE LET turn == TurnOfLine(line, project_path)
             at == {i \in 1..Len(b) : b[i].message_id = turn.message_id}
         IN  IF at = {}
             THEN [raised |-> FALSE, best |-> Append(b, turn)]
             ELSE LET i == CHOOSE i \in at : TRUE
                  IN  IF turn.output_tokens >= b[i].output_tokens
                      THEN [raised |-> FALSE, best |-> [b EXCEPT ![i] = turn]]
                      ELSE [raised |-> FALSE, best |-> b]

\* One pass of the for loop over a line, on the dict b: the new dict, or
\* raised when obj.get is called on a value that is no dict (AttributeError,
\* which iter_turns does not catch).
parse_line(b, line, project_path) ==
    IF line.kind \in {"blank", "malformed"} THEN [raised |-> FALSE, best |-> b]
    ELSE IF line.kind = "nonobject" THEN [raised |-> TRUE, best |-> b]
    ELSE IF line.type # "assistant" THEN [raised |-> FALSE, best |-> b]
    ELSE IF line.usage # "counts" THEN [raised |-> FALSE, best |-> b]
    ELSE IF line.input_tokens + line.output_tokens
              + line.cache_creation_input_tokens + line.cache_read_input_tokens = 0
         THEN [raised |-> FALSE, best |-> b]
    ELSE LET turn == TurnOfLine(line, project_path)
             at == {i \in 1..Len(b) : b[i].message_id = turn.message_id}
         IN  IF at = {}
             THEN [raised |-> FALSE, best |-> Append(b, turn)]
             ELSE LET i == CHOOSE i \in at : TRUE
                  IN  IF turn.output_tokens > b[i].output_tokens
                      THEN [raised |-> FALSE, best |-> [b EXCEPT ![i] = turn]]
                      ELSE [raised |-> FALSE, best |-> b]

\* iter_turns is called on a file
InitParse ==
    /\ StoreInit
    /\ TxnInit
    /\ IngestInit
    /\ WindowInit
    /\ PricingInit
    /\ ScanInit
    /\ ConfigInit
    /\ GrowInit
    /\ lines \in Files
    /\ pos = 0
    /\ best = <<>>
    /\ pstate = "reading"
    /\ yielded = <<>>

\* The for loop takes the next line
ParseLine ==
    /\ pstate = "reading"
    /\ pos < Len(lines)
    /\ LET r == parse_line(best, lines[pos + 1], ParseProjectPath)
       IN  /\ best' = r.best
           /\ pstate' = IF r.raised THEN "raised" ELSE "reading"
    /\ pos' = pos + 1
    /\ UNCHANGED <<lines, yielded, storeVars, txnVars, ingestVars, windowVars, pricingVars, scanVars, configVars, growVars>>

\* yield from best.values()
Yield ==
    /\ pstate = "reading"
    /\ pos = Len(lines)
    /\ yielded' = best
    /\ pstate' = "yielded"
    /\ UNCHANGED <<lines, pos, best, storeVars, txnVars, ingestVars, windowVars, pricingVars, scanVars, configVars, growVars>>

NextParse == ParseLine \/ Yield

SpecParse == InitParse /\ [][NextParse]_vars

----------------------------------------------------------------------------
(* tracker/parser.py scan functions and ingest.py main over a log directory *)

\* The .jsonl files the log directory can hold, under ~/.claude/projects
DiskPaths == {"d1/s1.jsonl", "d1/s2.jsonl", "d2/s1.jsonl"}

\* The project subdirectory of a path (entry.name)
Dir == "d1/s1.jsonl" :> "d1" @@ "d1/s2.jsonl" :> "d1" @@ "d2/s1.jsonl" :> "d2"

\* The file name of a path without ".jsonl"
Stem == "d1/s1.jsonl" :> "s1" @@ "d1/s2.jsonl" :> "s2" @@ "d2/s1.jsonl" :> "s1"

\* Lines of the files: a user record declaring its cwd, the streamed partial
\* and the final record of message m1, an assistant record of message m2
\* whose usage counts are all zero, and a line holding JSON that is no object.
UserLine == [LineShape EXCEPT !.type = "user", !.cwd = "p1"]
PartialLine == [LineShape EXCEPT !.id = "m1", !.output_tokens = 1]
FinalLine == [LineShape EXCEPT !.id = "m1", !.uuid = "u2", !.timestamp = 2, !.output_tokens = 2]
ZeroLine == [LineShape EXCEPT !.id = "m2"]
NonObjectLine == [LineShape EXCEPT !.kind = "nonobject"]

\* What stands for the lines of a file whose open() raises OSError (a file
\* without read permission, a path that is a directory)
Unreadable == <<[LineShape EXCEPT !.kind = "oserror"]>>

FileContents ==
    {<<UserLine, PartialLine>>, <<FinalLine>>, <<PartialLine, ZeroLine>>, <<NonObjectLine>>}

\* The log directories: each path is missing or holds one of the contents
Disks == UNION {[paths -> FileContents] : paths \in SUBSET DiskPaths}

\* _get_cwd_from_jsonl on the lines of a file: the cwd of the first user
\* record, "" when there is none or the file cannot be opened; json.loads of
\* a blank or malformed line is caught, obj.get on a value that is no dict is
\* not.
RECURSIVE get_cwd_from_jsonl(_)
get_cwd_from_jsonl(content) ==
    IF content = <<>> \/ content = Unreadable THEN [raised |-> FALSE, cwd |-> ""]
    ELSE LET line == Head(content)
         IN  IF line.kind \in {"blank", "malformed"} THEN get_cwd_from_jsonl(Tail(content))
             ELSE IF line.kind = "nonobject" THEN [raised |-> TRUE, cwd |-> ""]
             ELSE IF line.type = "user" THEN [raised |-> FALSE, cwd |-> line.cwd]
             ELSE get_cwd_from_jsonl(Tail(content))

\* The for loop of iter_turns from the dict b on, then yield from best.values()
RECURSIVE iter_lines(_, _, _)
iter_lines(b, content, project_path) ==
    IF content = <<>> THEN [raised |-> FALSE, turns |-> b]
    ELSE LET r == parse_line(b, Head(content), project_path)
         IN  IF r.raised THEN [raised |-> TRUE, turns |-> <<>>]
             ELSE iter_lines(r.best, Tail(content), project_path)

\* Faulty variant: the open() of iter_turns outside its try/except OSError
iter_turns_open_uncaught(content, project_path) ==
    IF content = Unreadable THEN [raised |-> TRUE, turns |-> <<>>]
    ELSE iter_lines(<<>>, content, project_path)

\* list(iter_turns(jsonl_path, project_path)): nothing when the file cannot
\* be opened
iter_turns(content, project_path) ==
    IF content = Unreadable THEN [raised |-> FALSE, turns |-> <<>>]
    ELSE iter_lines(<<>>, content, project_path)

\* list(scan_session_turns(path))
scan_session_turns(content) ==
    LET c == get_cwd_from_jsonl(content)
    IN  IF c.raised THEN [raised |-> TRUE, turns |-> <<>>]
        ELSE iter_turns(content, c.cwd)

\* The orders in which a set can be listed
Orders(S) == {o \in [1..Cardinality(S) -> S] : \A i, k \in DOMAIN o : o[i] = o[k] => i = k}

\* The listings scan_projects can yield: nothing when the root is no
\* directory; else os.scandir gives the subdirectories in some order, glob
\* gives the .jsonl files of each in some order, and a subdirectory without
\* such a file is passed over.
scan_projects(root_exists, subdirs, d) ==
    LET files(e) == {f \in DOMAIN d : Dir[f] = e}
    IN  IF ~root_exists THEN {[entries |-> <<>>, jsonl_files |-> <<>>]}
        ELSE {[entries |-> LET has_files(e) == fo[e] # <<>> IN SelectSeq(eo, has_files),
               jsonl_files |-> fo] :
                eo \in Orders(subdirs),
                fo \in {g \in [subdirs -> UNION {Orders(files(e)) : e \in subdirs}] :
                           \A e \in subdirs : g[e] \in Orders(files(e))}}

\* The listings of a directory whose subdirectories are those of its files
Listings(d) == scan_projects(TRUE, {Dir[f] : f \in DOMAIN d}, d)

\* The inner loop of scan_all_turns over the files of one project
RECURSIVE scan_files(_, _, _)
scan_files(d, jsonl_files, project_path) ==
    IF jsonl_files = <<>> THEN [raised |-> FALSE, turns |-> <<>>]
    ELSE LET r == iter_turns(d[Head(jsonl_files)], project_path)
             rest == scan_files(d, Tail(jsonl_files), project_path)
         IN  IF r.raised \/ rest.raised THEN [raised |-> TRUE, turns |-> <<>>]
             ELSE [raised |-> FALSE, turns |-> r.turns \o rest.turns]

\* list(scan_all_turns()) under a listing: per project, project_path is the
\* cwd found in its first file or else the name of the subdirectory
RECURSIVE scan_entries(_, _, _)
scan_entries(d, entries, jsonl_files) ==
    IF entries = <<>> THEN [raised |-> FALSE, turns |-> <<>>]
    ELSE LET e == Head(entries)
             c == get_cwd_from_jsonl(d[jsonl_files[e][1]])
             project_path == IF c.cwd # "" THEN c.cwd ELSE e
             r == scan_files(d, jsonl_files[e], project_path)
             rest == scan_entries(d, Tail(entries), jsonl_files)
         IN  IF c.raised \/ r.raised \/ rest.raised THEN [raised |-> TRUE, turns |-> <<>>]
             ELSE [raised |-> FALSE, turns |-> r.turns \o rest.turns]

scan_all_turns(d, listing) == scan_entries(d, listing.entries, listing.jsonl_files)

\* The payloads of the Stop hook: each field absent, empty or a string. A stdin
\* that is empty or no JSON leaves payload = {}, both fields absent.
TranscriptPaths == {None, "", "d1/s1.jsonl"}
PayloadSessionIds == {None, "s1", "s2"}

\* Truth value of an Optional[str]
Truthy(x) == x # None /\ x # ""

\* Faulty variant of main's branch: the session_id search is tried before
\* the transcript_path
select_files_session_first(transcript_path, session_id, d) ==
    LET matches == {f \in DOMAIN d : Stem[f] = session_id}
    IN  IF Truthy(session_id) /\ matches # {}
        THEN {[strategy |-> "session", files |-> {f}] : f \in matches}
        ELSE IF Truthy(transcript_path) /\ transcript_path \in DOMAIN d
        THEN {[strategy |-> "transcript", files |-> {transcript_path}]}
        ELSE {[strategy |-> "full", files |-> DOMAIN d]}

\* The if/elif/else of main: the branch taken and the files it reads.
\* glob may list the matches of a session_id in any order, so matches[0] is
\* any of them.
select_files(transcript_path, session_id, d) ==
    IF Truthy(transcript_path) /\ transcript_path \in DOMAIN d
    THEN {[strategy |-> "transcript", files |-> {transcript_path}]}
    ELSE IF Truthy(session_id)
    THEN LET matches == {f \in DOMAIN d : Stem[f] = session_id}
         IN  IF matches # {}
             THEN {[strategy |-> "session", files |-> {f}] : f \in matches}
             ELSE {[strategy |-> "full", files |-> DOMAIN d]}
    ELSE {[strategy |-> "full", files |-> DOMAIN d]}

\* main() starts on some log directory
InitIngest ==
    /\ StoreInit
    /\ TxnInit
    /\ ParseInit
    /\ disk \in Disks
    /\ runs = 0
    /\ trace = <<>>
    /\ handed = <<>>
    /\ WindowInit
    /\ PricingInit
    /\ ScanInit
    /\ ConfigInit
    /\ GrowInit

\* One run of main(): pick the files, extract their Turns, upsert them. An
\* exception raised by the extraction leaves main before upsert_turns_bulk.
Ingest(transcript_path, session_id) ==
    /\ runs < MaxRuns
    /\ \E sel \in select_files(transcript_path, session_id, disk), listing \in Listings(disk) :
          LET r == IF sel.strategy = "full"
                   THEN scan_all_turns(disk, listing)
                   ELSE scan_session_turns(disk[CHOOSE f \in sel.files : TRUE])
              st == IF r.raised THEN Store ELSE upsert_turns_bulk(Store, r.turns)
          IN  /\ sessions' = st[1]
              /\ turns' = st[2]
              /\ handed' = r.turns
              /\ trace' = Append(trace,
                                 [transcript_path |-> transcript_path,
                                  session_id |-> session_id,
                                  strategy |-> sel.strategy,
                                  files |-> sel.files,
                                  outcome |-> IF r.raised THEN "raised" ELSE "ok"])
    /\ prev' = Store
    /\ runs' = runs + 1
    /\ UNCHANGED <<last, ncalls, disk, txnVars, parseVars, windowVars, pricingVars, scanVars, configVars, growVars>>

NextIngest ==
    \E transcript_path \in TranscriptPaths, session_id \in PayloadSessionIds :
        Ingest(transcript_path, session_id)

SpecIngest == InitIngest /\ [][NextIngest]_vars

----------------------------------------------------------------------------
(* scan_all_turns over a projects directory that may be missing, hold       *)
(* subdirectories without log files and files that cannot be opened         *)

SubDirs == {"d1", "d2"}

ScanContents == {<<UserLine, PartialLine>>, <<FinalLine>>, <<NonObjectLine>>, Unreadable}

\* The directories: no root; or a root with some subdirectories, each path
\* inside them missing or holding one of the contents
Trees ==
    {[root |-> FALSE, subdirs |-> {}]}
      \cup {[root |-> TRUE, subdirs |-> ds] : ds \in SUBSET SubDirs}

InitScan ==
    /\ StoreInit
    /\ TxnInit
    /\ ParseInit
    /\ WindowInit
    /\ PricingInit
    /\ ConfigInit
    /\ GrowInit
    /\ tree \in Trees
    /\ disk \in UNION {[paths -> ScanContents] :
                          paths \in SUBSET {f \in DiskPaths : Dir[f] \in tree.subdirs}}
    /\ runs = 0
    /\ trace = <<>>
    /\ handed = <<>>
    /\ scanned = NotScanned

\* list(scan_all_turns()) is evaluated
ScanAll ==
    /\ \E listing \in scan_projects(tree.root, tree.subdirs, disk) :
          scanned' = [listing |-> listing, result |-> scan_all_turns(disk, listing)]
    /\ UNCHANGED <<tree, storeVars, txnVars, parseVars, ingestVars, windowVars,
                   pricingVars, configVars, growVars>>

NextScan == ScanAll

SpecScan == InitScan /\ [][NextScan]_vars

----------------------------------------------------------------------------
(* ingest.py main run by the Stop hook each time the session's log file has
   grown by a line *)

GrowPath == "d1/s1.jsonl"

\* A record of message m1 that differs from PartialLine in its model and
\* input count as well
RevisedLine ==
    [LineShape EXCEPT !.id = "m1", !.uuid = "u2", !.timestamp = 2, !.model = "claude-opus-4-5",
                      !.input_tokens = 1, !.output_tokens = 2]

GrowLines == {UserLine, PartialLine, FinalLine, RevisedLine, ZeroLine, NonObjectLine}

\* The files a session can end with: 1 to MaxRuns lines
GrowFiles == UNION {[1..n -> GrowLines] : n \in 1..MaxRuns}

\* The session's file exists and is empty; the store is empty
InitGrow ==
    /\ StoreInit
    /\ TxnInit
    /\ ParseInit
    /\ WindowInit
    /\ PricingInit
    /\ ScanInit
    /\ ConfigInit
    /\ whole \in GrowFiles
    /\ disk = (GrowPath :> <<>>)
    /\ runs = 0
    /\ trace = <<>>
    /\ handed = <<>>

\* The next line is appended to the file, once the lines before it have
\* been ingested
AppendLine ==
    /\ runs = Len(disk[GrowPath])
    /\ Len(disk[GrowPath]) < Len(whole)
    /\ disk' = [disk EXCEPT ![GrowPath] = Append(@, whole[Len(@) + 1])]
    /\ UNCHANGED <<runs, trace, handed, storeVars, txnVars, parseVars, windowVars, pricingVars,
                   scanVars, configVars, growVars>>

\* The Stop hook runs main() on the file as it is now
IngestGrown ==
    /\ runs < Len(disk[GrowPath])
    /\ \E session_id \in PayloadSessionIds : Ingest(GrowPath, session_id)

NextGrow ==
    \/ AppendLine
    \/ IngestGrown

SpecGrow == InitGrow /\ [][NextGrow]_vars

----------------------------------------------------------------------------
(* tracker/config.py: the plan kept in the configuration file *)

\* The keys of PLAN_LIMITS in insertion order
PLANS == <<"pro", "max5", "max20">>

PLAN_LIMITS == "pro" :> 44000 @@ "max5" :> 88000 @@ "max20" :> 220000

\* get_plan on the dict cfg that _load() returned
get_plan(cfg) == IF "plan" \in DOMAIN cfg THEN cfg["plan"] ELSE "pro"

\* Faulty variant: set_plan without its membership test
set_plan_unchecked(cfg, plan) ==
    [raised |-> FALSE, config |-> ("plan" :> plan) @@ cfg]

\* set_plan: ValueError for a plan outside PLAN_LIMITS, before anything is
\* loaded or saved; else the loaded dict with its "plan" replaced is saved
set_plan(cfg, plan) ==
    IF plan \notin DOMAIN PLAN_LIMITS
    THEN [raised |-> TRUE, config |-> cfg]
    ELSE [raised |-> FALSE, config |-> ("plan" :> plan) @@ cfg]

get_limit(cfg) ==
    IF get_plan(cfg) \in DOMAIN PLAN_LIMITS
    THEN PLAN_LIMITS[get_plan(cfg)]
    ELSE PLAN_LIMITS["pro"]

\* PLANS.index(current), counted from 0
index(current) == (CHOOSE i \in 1..Len(PLANS) : PLANS[i] = current) - 1

\* Faulty variant: cycle_plan that stops at the last plan instead of wrapping
cycle_plan_no_wrap(cfg) ==
    LET current == get_plan(cfg)
        idx == IF \E i \in 1..Len(PLANS) : PLANS[i] = current THEN index(current) ELSE 0
        next_plan == PLANS[(IF idx + 1 < Len(PLANS) THEN idx + 1 ELSE idx) + 1]
        r == set_plan(cfg, next_plan)
    IN  [raised |-> r.raised, config |-> r.config, result |-> next_plan]

cycle_plan(cfg) ==
    LET current == get_plan(cfg)
        idx == IF \E i \in 1..Len(PLANS) : PLANS[i] = current THEN index(current) ELSE 0
        next_plan == PLANS[((idx + 1) % Len(PLANS)) + 1]
        r == set_plan(cfg, next_plan)
    IN  [raised |-> r.raised, config |-> r.config, result |-> next_plan]

\* The arguments set_plan is called with: the three plans and two values
\* outside the enumeration
PlanArgs == {"pro", "max5", "max20", "enterprise", ""}

\* The calls are made on an absent configuration file
InitConfig ==
    /\ StoreInit
    /\ TxnInit
    /\ ParseInit
    /\ IngestInit
    /\ WindowInit
    /\ PricingInit
    /\ ScanInit
    /\ config = <<>>
    /\ calls = <<>>
    /\ GrowInit

Called(op, arg, raised, result, after) ==
    /\ Len(calls) < MaxOps
    /\ config' = after
    /\ calls' = Append(calls, [op |-> op, arg |-> arg, raised |-> raised,
                               result |-> result, before |-> config, after |-> after])
    /\ UNCHANGED <<storeVars, txnVars, parseVars, ingestVars, windowVars, pricingVars,
                   scanVars, growVars>>

SetPlan(plan) ==
    LET r == set_plan(config, plan)
    IN  Called("set_plan", plan, r.raised, None, r.config)

GetPlan == Called("get_plan", None, FALSE, get_plan(config), config)

GetLimit == Called("get_limit", None, FALSE, get_limit(config), config)

CyclePlan ==
    LET r == cycle_plan(config)
    IN  Called("cycle_plan", None, r.raised, r.result, r.config)

NextConfig ==
    \/ \E plan \in PlanArgs : SetPlan(plan)
    \/ GetPlan
    \/ GetLimit
    \/ CyclePlan

SpecConfig == InitConfig /\ [][NextConfig]_vars

----------------------------------------------------------------------------
(* The rolling-window query at some time of day: Turns are stored with       *)
(* timestamps some hours before now, then the dashboard asks for the window  *)

\* The instants of the query: every hour of day 0 from 06:00 on and of day 1
NowHours == 6..47

\* How many hours before now a stored Turn is timestamped
Ages == {0, 4, 6}

\* The Turn of message m timestamped at the instant ts
WindowTurn(m, ts) ==
    [message_id |-> m, session_id |-> "s1", project_path |-> "p1", timestamp |-> ts,
     model |-> "unknown", input_tokens |-> 0, output_tokens |-> 1,
     cache_creation_tokens |-> 0, cache_read_tokens |-> 0]

InitWindow ==
    /\ StoreInit
    /\ TxnInit
    /\ ParseInit
    /\ IngestInit
    /\ now \in NowHours
    /\ window = NoQuery
    /\ PricingInit
    /\ ScanInit
    /\ ConfigInit
    /\ GrowInit

\* The dashboard calls query_rolling_window()
QueryWindow ==
    /\ window' = [hours |-> WindowHours, rows |-> turns,
                  result |-> query_rolling_window(turns, now, WindowHours)]
    /\ UNCHANGED <<now, storeVars, txnVars, parseVars, ingestVars, pricingVars, scanVars, configVars, growVars>>

NextWindow ==
    \/ \E m \in MessageIds, age \in Ages : Upsert(WindowTurn(m, now - age))
    \/ QueryWindow

SpecWindow == InitWindow /\ [][NextWindow]_vars

----------------------------------------------------------------------------
(* Calls of tracker/pricing.py on some model identifier and token counts *)

\* The model identifiers asked for: every key of PRICING, dated and truncated
\* forms of keys, the empty string and identifiers unrelated to every key
ModelIds == DOMAIN Chars

\* One million tokens, the unit of the rates
Million == 1000000

\* The token counts asked for: a cost of whole dollars needs a million tokens
\* of one kind, the other kinds then have few
InputCounts == {0, 1, Million}
TokenCounts == {0, 1, 2}

\* The four rates of a pricing dict
Rates(p) ==
    [input |-> p.input, output |-> p.output,
     cache_write |-> p.cache_write, cache_read |-> p.cache_read]

InitPricing ==
    /\ StoreInit
    /\ TxnInit
    /\ ParseInit
    /\ IngestInit
    /\ WindowInit
    /\ ScanInit
    /\ ConfigInit
    /\ GrowInit
    /\ ask \in [model : ModelIds, input_tokens : InputCounts, output_tokens : TokenCounts,
                cache_creation_tokens : TokenCounts, cache_read_tokens : TokenCounts]
    /\ quote = NoQuote

\* get_pricing(model) and calculate_cost(model, ...) are called
Quote ==
    /\ quote' = [model |-> ask.model,
                 rates |-> Rates(get_pricing(ask.model)),
                 cost |-> calculate_cost(ask.model, ask.input_tokens, ask.output_tokens,
                                         ask.cache_creation_tokens, ask.cache_read_tokens)]
    /\ UNCHANGED <<ask, storeVars, txnVars, parseVars, ingestVars, windowVars, scanVars, configVars, growVars>>

NextPricing == Quote

SpecPricing == InitPricing /\ [][NextPricing]_vars

----------------------------------------------------------------------------
(* Properties of the store, checked under Spec *)

\* C1: upserting a Turn t a second time, right after it was upserted from a
\* reachable store S, leaves sessions and turns exactly as the first upsert
\* of t left them.
C1_IdempotentUpsert ==
    last # NoTurn => upsert_turns_bulk(Store, <<last>>) = Store

\* C1 witness: t was upserted onto a store that already held its message_id
\* with different counts and its session_id, and merged into the old row.
C1_Witness ==
    /\ ncalls = 2
    /\ last.message_id \in DOMAIN prev[2]
    /\ last.session_id \in DOMAIN prev[1]
    /\ turns[last.message_id] # prev[2][last.message_id]
    /\ turns[last.message_id].input_tokens # last.input_tokens

\* C2: from one state to the next, the stored output_tokens,
\* cache_creation_tokens, cache_read_tokens and cost_usd of every stored
\* message_id never decrease (and the row stays).
C2_MonotoneMerge ==
    [][\A m \in DOMAIN turns :
          /\ m \in DOMAIN turns'
          /\ turns'[m].output_tokens >= turns[m].output_tokens
          /\ turns'[m].cache_creation_tokens >= turns[m].cache_creation_tokens
          /\ turns'[m].cache_read_tokens >= turns[m].cache_read_tokens
          /\ turns'[m].cost_usd >= turns[m].cost_usd]_vars

\* C2 witness: a stale resend (lower output and lower cost than stored) was
\* upserted and the stored output and cost kept the old, higher values.
C2_Witness ==
    /\ last # NoTurn
    /\ last.message_id \in DOMAIN prev[2]
    /\ last.output_tokens < prev[2][last.message_id].output_tokens
    /\ TurnCost(last) < prev[2][last.message_id].cost_usd
    /\ turns[last.message_id].output_tokens = prev[2][last.message_id].output_tokens
    /\ turns[last.message_id].cost_usd = prev[2][last.message_id].cost_usd

\* C3: bulk upserts commute: from every reachable store, upserting batch A
\* then batch B yields the same sessions and turns as upserting B then A
\* (stated here for the one-Turn batches, which already decide it).
C3_UpsertsCommute ==
    \A a, b \in Turns :
        upsert_turns_bulk(upsert_turns_bulk(Store, <<a>>), <<b>>)
          = upsert_turns_bulk(upsert_turns_bulk(Store, <<b>>), <<a>>)

SessionTimestamps(s) ==
    {turns[m].timestamp : m \in {x \in DOMAIN turns : turns[x].session_id = s}}

\* C4: every session row's first_seen is the minimum and its last_seen the
\* maximum of the stored timestamps of the turn rows carrying its session_id.
C4_SessionBoundsAreMinMax ==
    \A s \in DOMAIN sessions :
        SessionTimestamps(s) # {} =>
            /\ sessions[s].first_seen \in SessionTimestamps(s)
            /\ sessions[s].last_seen \in SessionTimestamps(s)
            /\ \A x \in SessionTimestamps(s) :
                   sessions[s].first_seen <= x /\ x <= sessions[s].last_seen

\* C5: the cost_usd stored for each turn row equals the Pricing Table cost
\* recomputed from the row's stored model and its four stored token counts.
C5_CostRecomputable ==
    \A m \in DOMAIN turns :
        turns[m].cost_usd =
            calculate_cost(turns[m].model, turns[m].input_tokens, turns[m].output_tokens,
                           turns[m].cache_creation_tokens, turns[m].cache_read_tokens)

\* C10: when a Turn is upserted onto an existing message_id, each of output,
\* cache-creation, cache-read tokens and cost becomes max(existing, incoming)
\* independently, and input_tokens keeps the value of the first insert.
C10_FieldwiseMaxMerge ==
    (last # NoTurn /\ last.message_id \in DOMAIN prev[2]) =>
        LET old == prev[2][last.message_id]
            new == turns[last.message_id]
        IN  /\ new.output_tokens = Max(old.output_tokens, last.output_tokens)
            /\ new.cache_creation_tokens
                 = Max(old.cache_creation_tokens, last.cache_creation_tokens)
            /\ new.cache_read_tokens = Max(old.cache_read_tokens, last.cache_read_tokens)
            /\ new.cost_usd = Max(old.cost_usd, TurnCost(last))
            /\ new.input_tokens = old.input_tokens

\* C10 witness: the incoming Turn won on cache-creation, lost on output, and
\* carried a larger input count that was not taken.
C10_Witness ==
    /\ last # NoTurn
    /\ last.message_id \in DOMAIN prev[2]
    /\ last.cache_creation_tokens > prev[2][last.message_id].cache_creation_tokens
    /\ last.output_tokens < prev[2][last.message_id].output_tokens
    /\ last.input_tokens > prev[2][last.message_id].input_tokens
    /\ turns[last.message_id].input_tokens < last.input_tokens

\* C11: in every store reachable by upsert_turns_bulk calls, every session
\* row has first_seen <= last_seen.
C11_FirstSeenNotAfterLastSeen ==
    \A s \in DOMAIN sessions : sessions[s].first_seen <= sessions[s].last_seen

\* C11 witness: a Turn timestamped before the first_seen of its stored session
\* was upserted, and the session row still spans a single instant.
C11_Witness ==
    /\ last # NoTurn
    /\ last.session_id \in DOMAIN prev[1]
    /\ last.timestamp < prev[1][last.session_id].first_seen
    /\ sessions[last.session_id].first_seen = sessions[last.session_id].last_seen

\* C12: at every upsert of a Turn, the last_seen of its session becomes
\* max(previous last_seen, Turn timestamp), no other session row changes, no
\* session row disappears, and first_seen of a stored session never changes.
C12_LastSeenExtendsFirstSeenFixed ==
    [][\A s \in DOMAIN sessions :
          /\ s \in DOMAIN sessions'
          /\ sessions'[s].first_seen = sessions[s].first_seen
          /\ sessions'[s].last_seen =
                IF last'.session_id = s
                THEN Max(sessions[s].last_seen, last'.timestamp)
                ELSE sessions[s].last_seen
          /\ sessions'[s].last_seen >= sessions[s].last_seen]_vars

\* C12 witness: one Turn extended the last_seen of its stored session, and a
\* Turn timestamped before first_seen left first_seen where it was.
C12_Witness ==
    /\ last # NoTurn
    /\ last.session_id \in DOMAIN prev[1]
    /\ last.timestamp > prev[1][last.session_id].last_seen
    /\ sessions[last.session_id].last_seen = last.timestamp
    /\ sessions[last.session_id].first_seen = prev[1][last.session_id].first_seen
    /\ sessions[last.session_id].first_seen < last.timestamp

\* C19: from one state to the next no turn row and no session row is
\* removed, and none of the totals of query_totals (turns, distinct
\* sessions, the four token sums, the cost sum) decreases.
C19_TotalsNeverDecrease ==
    [][LET before == query_totals(turns)
           after == query_totals(turns')
       IN  /\ DOMAIN turns \subseteq DOMAIN turns'
           /\ DOMAIN sessions \subseteq DOMAIN sessions'
           /\ after.turns >= before.turns
           /\ after.sessions >= before.sessions
           /\ turns # EmptyTable =>
                 \A column \in {"input_tokens", "output_tokens", "cache_creation_tokens",
                                "cache_read_tokens", "cost_usd"} :
                     after[column] >= before[column]]_vars

\* C19 witness: a Turn was merged into a stored row: the turn count stayed,
\* the cost total grew, and the output total stayed although the Turn's
\* output count was below the stored one.
C19_Witness ==
    /\ last # NoTurn
    /\ last.message_id \in DOMAIN prev[2]
    /\ query_totals(turns).turns = query_totals(prev[2]).turns
    /\ query_totals(turns).cost_usd > query_totals(prev[2]).cost_usd
    /\ last.output_tokens < prev[2][last.message_id].output_tokens
    /\ query_totals(turns).output_tokens = query_totals(prev[2]).output_tokens

\* C20: for every session whose stored Turns have different models, the model
\* in its row of query_sessions is the model of its most recently timestamped
\* Turn.
C20_SessionModelIsLatest ==
    \A row \in query_sessions(sessions, turns) :
        LET of == TurnsOf(turns, row.session_id)
            latest == {m \in of : \A k \in of : turns[k].timestamp <= turns[m].timestamp}
        IN  Cardinality({turns[m].model : m \in of}) > 1 =>
                row.model \in {turns[m].model : m \in latest}

----------------------------------------------------------------------------
(* Properties of concurrent ingests and readers, checked under SpecTxn *)

\* C6: a bulk upsert is all-or-nothing: when upsert_turns_bulk fails while
\* processing a Turn of its list, the committed store does not change and
\* equals the store as it was when the call ran its first statement.
C6_FailedBatchCommitsNothing ==
    [][\A p \in Procs :
          (pc[p] = "upsert" /\ pc'[p] = "failed") =>
              /\ sessions' = sessions /\ turns' = turns
              /\ stmts[p] > 0 => <<sessions', turns'>> = begun[p]]_vars

\* C6 witness: a call failed on its second Turn, after the first Turn's rows
\* had been written in its transaction, and the committed turns table holds
\* no row of that first Turn.
C6_Witness ==
    \E p \in Procs :
        /\ pc[p] = "failed"
        /\ stmts[p] >= 2
        /\ batch[p][1].message_id \in DOMAIN txn[p][2]
        /\ batch[p][1].message_id \notin DOMAIN turns

\* C7: a query made while a process is inside its upsert_turns_bulk call sees
\* the store as it was before that whole batch, and every query result is a
\* store at a batch boundary (never part of a batch, never a session row
\* whose turn row is still missing).
C7_ReaderSeesWholeBatches ==
    /\ seen.result \in snaps
    /\ \A w \in seen.writers : seen.result = begun[w[1]]

\* C7 witness: a query ran when a writer had executed the sessions upsert of
\* a Turn but not yet its turns upsert, and saw no session row.
C7_Witness ==
    \E w \in seen.writers :
        /\ w[2] = 1
        /\ batch[w[1]][1].session_id \in DOMAIN txn[w[1]][1]
        /\ batch[w[1]][1].session_id \notin DOMAIN seen.result[1]

SerialOutcomes ==
    {upsert_turns_bulk(upsert_turns_bulk(EmptyStore, batch["p1"]), batch["p2"]),
     upsert_turns_bulk(upsert_turns_bulk(EmptyStore, batch["p2"]), batch["p1"])}

\* C8: when two ingest processes ran concurrently and both returned, the
\* store equals the store produced by running the two upserts one after the
\* other (in one of the two orders), so no update of either is lost.
C8_ConcurrentIngestsSerialize ==
    (\A p \in Procs : pc[p] = "done") => Store \in SerialOutcomes

\* C8 witness: both processes returned, each had to wait for the other's
\* transaction or ran while the other waited, their lists share a message_id,
\* and the two serial orders give different stores.
C8_Witness ==
    /\ \A p \in Procs : pc[p] = "done"
    /\ waited # {}
    /\ \E i \in DOMAIN batch["p1"], k \in DOMAIN batch["p2"] :
          /\ batch["p1"][i].message_id = batch["p2"][k].message_id
          /\ batch["p1"][i] # batch["p2"][k]
    /\ Cardinality(SerialOutcomes) = 2

----------------------------------------------------------------------------
(* Properties of the extractor, checked under SpecParse *)

Qualifying(line) ==
    /\ line.kind = "object" /\ line.type = "assistant" /\ line.usage = "counts"
    /\ line.input_tokens + line.output_tokens
         + line.cache_creation_input_tokens + line.cache_read_input_tokens # 0

LineKey(line) == IF line.id # "" THEN line.id ELSE line.uuid

QualifyingAt == {i \in 1..Len(lines) : Qualifying(lines[i])}

\* The yielded Turns are one per message_id of the qualifying records, each
\* equal in every field to a record of its group with the highest output.
DedupKeepsHighestOutput ==
    /\ Len(yielded) = Cardinality({LineKey(lines[i]) : i \in QualifyingAt})
    /\ {yielded[n].message_id : n \in 1..Len(yielded)}
         = {LineKey(lines[i]) : i \in QualifyingAt}
    /\ \A n \in 1..Len(yielded) :
          \E i \in QualifyingAt :
              /\ yielded[n] = TurnOfLine(lines[i], ParseProjectPath)
              /\ \A k \in QualifyingAt :
                    LineKey(lines[k]) = yielded[n].message_id
                        => lines[k].output_tokens <= lines[i].output_tokens

\* C9: for any log file, once iter_turns is over it has yielded exactly one
\* Turn per distinct message_id among the qualifying assistant records, with
\* the highest output-token count of its group and every other field from
\* that same record.
C9_OneTurnPerMessageId ==
    pstate # "reading" => DedupKeepsHighestOutput

\* A line that cannot be turned into a Turn: blank, malformed JSON, JSON that
\* is no object, a record whose type is not "assistant"
Unusable(line) == line.kind # "object" \/ line.type # "assistant"

Usable(line) == ~Unusable(line)

\* C21: lines that cannot be turned into a Turn are skipped without raising,
\* and the Turns yielded are those iter_turns yields for the file without
\* these lines.
C21_UnusableLinesSkipped ==
    /\ pstate # "raised"
    /\ pstate = "yielded" =>
          yielded = iter_turns(SelectSeq(lines, Usable), ParseProjectPath).turns

----------------------------------------------------------------------------
(* Properties of the orchestrator and the full scan, checked under SpecIngest *)

LatestRun == trace[Len(trace)]

\* C13: main picks the files to extract by strict priority: the file named
\* by transcript_path when it exists, and only it; otherwise, when a
\* session_id is given and a file named by it is found, one such file and only
\* it; otherwise every log file of every project.
C13_StrictPriority ==
    trace # <<>> =>
        LET tp == LatestRun.transcript_path
            sid == LatestRun.session_id
            named == {f \in DOMAIN disk : sid # None /\ Stem[f] = sid}
        IN  IF tp # None /\ tp \in DOMAIN disk THEN LatestRun.files = {tp}
            ELSE IF named # {}
                 THEN \E f \in named : LatestRun.files = {f}
                 ELSE LatestRun.files = DOMAIN disk

\* C13 witness: the payload named a transcript file that is missing and a
\* session whose file exists next to files of other sessions and projects;
\* only the session's file was extracted.
C13_Witness ==
    /\ trace # <<>>
    /\ LatestRun.transcript_path # None
    /\ LatestRun.transcript_path \notin DOMAIN disk
    /\ LatestRun.session_id # None
    /\ Cardinality(DOMAIN disk) = 2
    /\ Cardinality(LatestRun.files) = 1
    /\ LatestRun.outcome = "ok"
    /\ handed # <<>>

\* C14: a full scan and upsert run again over the unchanged log directory
\* leaves sessions and turns, and with them the results of query_totals,
\* query_sessions, query_projects and query_models, as the first run left
\* them, also when a message_id occurs in more than one log file.
C14_FullScanTwiceSameStore ==
    (Len(trace) >= 2 /\ LatestRun.strategy = "full"
                     /\ trace[Len(trace) - 1].strategy = "full") =>
        /\ Store = prev
        /\ query_totals(turns) = query_totals(prev[2])
        /\ query_sessions(sessions, turns) = query_sessions(prev[1], prev[2])
        /\ query_projects(sessions, turns) = query_projects(prev[1], prev[2])
        /\ query_models(turns) = query_models(prev[2])

\* C14 witness: two full scans in a row returned; message m1 is in two files
\* of the directory, as its partial record in one and its final record in the
\* other, and the store holds its row.
C14_Witness ==
    /\ Len(trace) >= 2
    /\ LatestRun.strategy = "full" /\ LatestRun.outcome = "ok"
    /\ trace[Len(trace) - 1].strategy = "full"
    /\ \E f, g \in DOMAIN disk :
          /\ f # g
          /\ \E i \in DOMAIN disk[f] : disk[f][i] = PartialLine
          /\ \E i \in DOMAIN disk[g] : disk[g][i] = FinalLine
    /\ "m1" \in DOMAIN turns
    /\ Len(handed) >= 2

\* C16: no Turn the extractor yields has all four token counts zero, and no
\* turn row stored through the ingest pipeline has all four stored counts zero.
C16_NoAllZeroTurn ==
    /\ \A i \in DOMAIN handed :
          handed[i].input_tokens + handed[i].output_tokens
            + handed[i].cache_creation_tokens + handed[i].cache_read_tokens # 0
    /\ \A m \in DOMAIN turns :
          ~ /\ turns[m].input_tokens = 0
            /\ turns[m].output_tokens = 0
            /\ turns[m].cache_creation_tokens = 0
            /\ turns[m].cache_read_tokens = 0

\* C16 witness: a run extracted a file holding an assistant record with all
\* counts zero next to a record with tokens, handed over the latter only, and
\* the zero record's message has no row.
C16_Witness ==
    /\ trace # <<>>
    /\ LatestRun.outcome = "ok"
    /\ \E f \in LatestRun.files : \E i \in DOMAIN disk[f] : disk[f][i] = ZeroLine
    /\ handed # <<>>
    /\ ZeroLine.id \notin DOMAIN turns
    /\ turns # EmptyTable

----------------------------------------------------------------------------
(* Properties of the rolling-window query, checked under SpecWindow *)

\* C15: query_rolling_window(h) aggregates exactly the stored Turns whose
\* timestamp is no earlier than h hours before now, at every time of day: a
\* Turn of 6 hours ago is outside a 5-hour window, a Turn of 4 hours ago is
\* inside.
C15_WindowIsExact ==
    window # NoQuery =>
        window.result =
            window_row(window.rows,
                       {m \in DOMAIN window.rows :
                           window.rows[m].timestamp >= now - window.hours})

----------------------------------------------------------------------------
(* Properties of the Pricing Table, checked under SpecPricing *)

\* x is a prefix of y, for character sequences
IsPrefix(x, y) == Len(x) <= Len(y) /\ SubSeq(y, 1, Len(x)) = x

\* The table entries one of whose key and the identifier is a prefix of the other
Related(model) ==
    {i \in 1..Len(PRICING) :
        \/ IsPrefix(Chars[model], Chars[PRICING[i].key])
        \/ IsPrefix(Chars[PRICING[i].key], Chars[model])}

\* C17: get_pricing returns the rates of the exactly matching table entry if
\* there is one; otherwise those of the first entry, in table order, such
\* that the identifier is a prefix of its key or its key a prefix of the
\* identifier; otherwise the default rates (so for an unseen, unprefixed
\* identifier); it returns for every identifier.
C17_LookupPolicy ==
    quote # NoQuote =>
        LET exact == {i \in 1..Len(PRICING) : PRICING[i].key = quote.model}
            related == Related(quote.model)
        IN  /\ exact # {} => \A i \in exact : quote.rates = Rates(PRICING[i])
            /\ (exact = {} /\ related # {}) =>
                  \E i \in related :
                      /\ \A k \in related : i <= k
                      /\ quote.rates = Rates(PRICING[i])
            /\ (exact = {} /\ related = {}) =>
                  quote.rates = [input |-> 300, output |-> 1500,
                                 cache_write |-> 375, cache_read |-> 30]

\* C17 witness: the identifier matches no key exactly and is a prefix of keys
\* with different rates; the rates returned are those of the first such key.
C17_Witness ==
    /\ quote # NoQuote
    /\ \A i \in 1..Len(PRICING) : PRICING[i].key # quote.model
    /\ \E i, k \in Related(quote.model) : Rates(PRICING[i]) # Rates(PRICING[k])
    /\ quote.rates = Rates(PRICING[1])

\* C18: calculate_cost returns the sum over the four token kinds of count
\* times the model's rate per million tokens divided by 1,000,000 (here in
\* units of 10^-8 USD: count times 100 * rate), which is not negative, and is
\* exactly 3.00 USD for claude-sonnet-4-5 with one million input tokens and
\* no other tokens.
C18_CostIsRateSum ==
    quote # NoQuote =>
        /\ quote.cost = ask.input_tokens * quote.rates.input
                        + ask.output_tokens * quote.rates.output
                        + ask.cache_creation_tokens * quote.rates.cache_write
                        + ask.cache_read_tokens * quote.rates.cache_read
        /\ quote.cost >= 0
        /\ (/\ ask.model = "claude-sonnet-4-5"
            /\ ask.input_tokens = Million
            /\ ask.output_tokens = 0
            /\ ask.cache_creation_tokens = 0
            /\ ask.cache_read_tokens = 0) => quote.cost = 300 * Million

\* C18 witness: the cost of one million input tokens of claude-sonnet-4-5 and
\* no other tokens was calculated, and is 3.00 USD.
C18_Witness ==
    /\ quote # NoQuote
    /\ ask.model = "claude-sonnet-4-5"
    /\ ask.input_tokens = Million
    /\ ask.output_tokens + ask.cache_creation_tokens + ask.cache_read_tokens = 0
    /\ quote.cost = 300 * Million

----------------------------------------------------------------------------
(* Properties of the scan, checked under SpecScan *)

\* The files of the directory that can be opened
Readable == {f \in DOMAIN disk : disk[f] # Unreadable}

\* A Turn without its project_path
Record(turn) == [x \in DOMAIN turn \ {"project_path"} |-> turn[x]]

RECURSIVE SumLen(_)
SumLen(fs) ==
    IF fs = {} THEN 0
    ELSE LET f == CHOOSE f \in fs : TRUE
         IN  Len(iter_lines(<<>>, disk[f], "").turns) + SumLen(fs \ {f})

\* C22: a file that cannot be opened contributes no Turn and the Turns of
\* all other files are yielded, a subdirectory without log file is passed
\* over, a missing root gives the empty result, and none of these raises: the
\* scan raises only on a line that is no JSON object (C21).
C22_ScanToleratesMissingAndUnreadable ==
    scanned # NotScanned =>
        /\ scanned.result.raised =>
              \E f \in Readable : \E i \in DOMAIN disk[f] : disk[f][i].kind = "nonobject"
        /\ ~scanned.result.raised =>
              /\ Len(scanned.result.turns) = SumLen(Readable)
              /\ \A f \in Readable :
                    \A t \in DOMAIN iter_lines(<<>>, disk[f], "").turns :
                        \E n \in DOMAIN scanned.result.turns :
                            Record(scanned.result.turns[n])
                              = Record(iter_lines(<<>>, disk[f], "").turns[t])
        /\ ~tree.root => scanned.result = [raised |-> FALSE, turns |-> <<>>]
        /\ \A e \in tree.subdirs :
              {f \in DOMAIN disk : Dir[f] = e} = {} =>
                  \A n \in DOMAIN scanned.listing.entries : scanned.listing.entries[n] # e

\* C22 witness: the scan of a root with a subdirectory without log file and
\* a subdirectory holding a file that cannot be opened and a file with a
\* Turn returned that Turn.
C22_Witness ==
    /\ scanned # NotScanned
    /\ ~scanned.result.raised
    /\ \E e \in tree.subdirs : {f \in DOMAIN disk : Dir[f] = e} = {}
    /\ \E f, g \in DOMAIN disk :
          /\ Dir[f] = Dir[g]
          /\ disk[f] = Unreadable
          /\ disk[g] # Unreadable
          /\ scanned.listing.jsonl_files[Dir[f]][1] = f
    /\ Len(scanned.result.turns) = 1

----------------------------------------------------------------------------
(* Ties in the de-duplication of iter_turns, checked under SpecParse *)

\* The qualifying records of message_id key among the lines read so far
ReadOf(key) == {i \in 1..pos : Qualifying(lines[i]) /\ LineKey(lines[i]) = key}

\* The earliest of them that has the highest output-token count
EarliestHighest(key) ==
    CHOOSE i \in ReadOf(key) :
        /\ \A k \in ReadOf(key) : lines[k].output_tokens <= lines[i].output_tokens
        /\ \A k \in ReadOf(key) : lines[k].output_tokens = lines[i].output_tokens => i <= k

\* C29: at every point of the loop the record retained for a message_id is
\* the earliest of the records read so far that has the highest output
\* count (so a later record replaced it only with a strictly greater count),
\* and this is the Turn that is yielded.
C29_TieKeepsEarliest ==
    /\ \A n \in DOMAIN best :
          /\ ReadOf(best[n].message_id) # {}
          /\ best[n] = TurnOfLine(lines[EarliestHighest(best[n].message_id)], ParseProjectPath)
    /\ pstate = "yielded" => yielded = best

\* C29 witness: the file held two qualifying records of one message_id with
\* the same, highest, output count and different uuids, and the Turn
\* yielded is that of the first.
C29_Witness ==
    /\ pstate = "yielded"
    /\ \E i, k \in 1..Len(lines) :
          /\ i < k
          /\ Qualifying(lines[i]) /\ Qualifying(lines[k])
          /\ LineKey(lines[i]) = LineKey(lines[k])
          /\ lines[i].output_tokens = lines[k].output_tokens
          /\ lines[i].uuid # lines[k].uuid
          /\ \A j \in 1..Len(lines) :
                (Qualifying(lines[j]) /\ LineKey(lines[j]) = LineKey(lines[i]))
                    => lines[j].output_tokens <= lines[i].output_tokens
          /\ \E n \in DOMAIN yielded :
                /\ yielded[n] = TurnOfLine(lines[i], ParseProjectPath)
                /\ yielded[n] # TurnOfLine(lines[k], ParseProjectPath)

----------------------------------------------------------------------------
(* Frame of an upsert, checked under Spec *)

\* C27: after upserting a Turn whose message_id was stored, that row's
\* session_id, timestamp, model and input_tokens are as before; after
\* upserting a Turn whose session_id was stored, that session's project_path
\* and first_seen are as before.
C27_IdentityColumnsKept ==
    last # NoTurn =>
        /\ last.message_id \in DOMAIN prev[2] =>
              \A column \in {"session_id", "timestamp", "model", "input_tokens"} :
                  turns[last.message_id][column] = prev[2][last.message_id][column]
        /\ last.session_id \in DOMAIN prev[1] =>
              \A column \in {"project_path", "first_seen"} :
                  sessions[last.session_id][column] = prev[1][last.session_id][column]

\* C27 witness: the Turn upserted last met a stored row of its message_id
\* and a stored session of its session_id, and differs from the row in
\* timestamp, model and input_tokens and from the session in project_path;
\* all of these are as they were.
C27_Witness ==
    /\ last # NoTurn
    /\ last.message_id \in DOMAIN prev[2]
    /\ last.session_id \in DOMAIN prev[1]
    /\ \A column \in {"timestamp", "model", "input_tokens"} :
          /\ last[column] # prev[2][last.message_id][column]
          /\ turns[last.message_id][column] = prev[2][last.message_id][column]
    /\ last.project_path # prev[1][last.session_id].project_path
    /\ last.timestamp # prev[1][last.session_id].first_seen
    /\ sessions[last.session_id].project_path = prev[1][last.session_id].project_path
    /\ sessions[last.session_id].first_seen = prev[1][last.session_id].first_seen

\* C28: every turn row's session_id has a session row, every session row
\* has a turn row carrying its session_id, and the number of session rows is
\* the distinct-session count of query_totals.
C28_SessionsMatchTurns ==
    /\ \A m \in DOMAIN turns : turns[m].session_id \in DOMAIN sessions
    /\ \A s \in DOMAIN sessions : \E m \in DOMAIN turns : turns[m].session_id = s
    /\ Cardinality(DOMAIN sessions) = query_totals(turns).sessions

----------------------------------------------------------------------------
(* Properties of the project path of the Turns main() hands to the store,
   checked under SpecIngest *)

\* The working directories that user records of the log files declare
DeclaredCwds ==
    {line.cwd : line \in {l \in UNION {{c[i] : i \in DOMAIN c} : c \in {disk[f] : f \in DOMAIN disk}} :
                             l.kind = "object" /\ l.type = "user" /\ l.cwd # ""}}

\* C24: every Turn handed to the store, by whichever branch of main(),
\* carries as project_path a working directory declared by a user record of
\* the logs or the name of a project directory, and never the empty string.
C24_ProjectPathResolved ==
    \A i \in DOMAIN handed :
        /\ handed[i].project_path # ""
        /\ handed[i].project_path \in DeclaredCwds \cup {Dir[f] : f \in DOMAIN disk}

\* The Turns scan_all_turns yields for the file f under a listing: those of
\* iter_turns with the project_path taken for the whole subdirectory of f
scan_all_turns_of(d, listing, f) ==
    LET e == Dir[f]
        c == get_cwd_from_jsonl(d[listing.jsonl_files[e][1]])
        project_path == IF c.cwd # "" THEN c.cwd ELSE e
    IN  IF c.raised THEN [raised |-> TRUE, turns |-> <<>>]
        ELSE iter_turns(d[f], project_path)

\* C26: the Turns a run of main() extracts from one file by
\* scan_session_turns are, field for field, the Turns scan_all_turns yields
\* for that file.
C26_FastPathEqualsFullScan ==
    (trace # <<>> /\ LatestRun.strategy # "full" /\ LatestRun.outcome = "ok") =>
        \A listing \in Listings(disk), f \in LatestRun.files :
            ~scan_all_turns_of(disk, listing, f).raised =>
                handed = scan_all_turns_of(disk, listing, f).turns

----------------------------------------------------------------------------
(* Properties of a log file ingested while it grows, checked under SpecGrow *)

\* C25: when the file was ingested after every append and every run
\* returned, the turn and session rows are those of ingesting the final file
\* once into an empty store.
C25_GrowingFileSameRows ==
    (/\ Len(disk[GrowPath]) = Len(whole)
     /\ runs = Len(whole)
     /\ \A i \in DOMAIN trace : trace[i].outcome = "ok") =>
        Store = upsert_turns_bulk(EmptyStore, scan_session_turns(whole).turns)

----------------------------------------------------------------------------
(* Properties of the plan configuration, checked under SpecConfig *)

\* The closed enumeration of tiers
Tiers == {"pro", "max5", "max20"}

\* C23: set_plan with a value outside the enumeration raises and leaves the
\* persisted configuration as it was; with a tier of the enumeration it
\* returns, and a get_plan that follows returns that tier.
C23_SetPlanValidates ==
    \A i \in DOMAIN calls :
        calls[i].op = "set_plan" =>
            /\ calls[i].arg \notin Tiers => calls[i].raised /\ calls[i].after = calls[i].before
            /\ calls[i].arg \in Tiers =>
                  /\ ~calls[i].raised
                  /\ (i + 1 \in DOMAIN calls /\ calls[i + 1].op = "get_plan") =>
                        calls[i + 1].result = calls[i].arg

\* C23 witness: on a configuration holding max20, set_plan of a value outside
\* the enumeration raised and the get_plan after it returned max20 still.
C23_Witness ==
    \E i \in DOMAIN calls :
        /\ i > 1 /\ i + 1 \in DOMAIN calls
        /\ calls[i - 1].op = "set_plan" /\ calls[i - 1].arg = "max20"
        /\ calls[i].op = "set_plan" /\ calls[i].arg = "enterprise" /\ calls[i].raised
        /\ calls[i + 1].op = "get_plan" /\ calls[i + 1].result = "max20"

\* The tier after each tier in the order pro, max5, max20, pro
Following == "pro" :> "max5" @@ "max5" :> "max20" @@ "max20" :> "pro"

\* The tier in force under a configuration: pro while none is persisted
TierOf(cfg) == IF cfg = <<>> THEN "pro" ELSE cfg["plan"]

\* C30: cycle_plan persists and returns the tier following the current one,
\* three cycle_plan calls in a row restore the tier they started from, the
\* persisted tier is always one of the enumeration, and get_limit returns
\* the ceiling of the tier in force.
C30_CyclePlanRotates ==
    /\ config # <<>> => DOMAIN config = {"plan"} /\ config["plan"] \in Tiers
    /\ \A i \in DOMAIN calls :
          /\ calls[i].op = "cycle_plan" =>
                /\ ~calls[i].raised
                /\ calls[i].result = Following[TierOf(calls[i].before)]
                /\ calls[i].after # <<>> /\ calls[i].after["plan"] = calls[i].result
          /\ (/\ i + 2 \in DOMAIN calls
              /\ \A k \in i..(i + 2) : calls[k].op = "cycle_plan") =>
                TierOf(calls[i + 2].after) = TierOf(calls[i].before)
          /\ calls[i].op = "get_limit" => calls[i].result = PLAN_LIMITS[TierOf(calls[i].before)]

\* C30 witness: from max5, three cycle_plan calls in a row went through
\* max20 and pro back to max5.
C30_Witness ==
    /\ Len(calls) = 4
    /\ calls[1].op = "set_plan" /\ calls[1].arg = "max5"
    /\ \A k \in 2..4 : calls[k].op = "cycle_plan"
    /\ calls[2].result = "max20" /\ calls[3].result = "pro" /\ calls[4].result = "max5"
    /\ config["plan"] = "max5"

=============================================================================
